---------------------------- MODULE Spec2Model ----------------------------
(***************************************************************************)
(* Model of src/src/main.rs: a terminal Snake game.  One GameState behind  *)
(* a Mutex is shared by two threads: the input thread (handle_input in a   *)
(* loop) and the main thread (the game loop of main).  The definitions of  *)
(* the handlers and of the statements of main give what a critical section *)
(* does to the GameState and to main's bindings; Atomic makes one step of  *)
(* game.lock().unwrap() ... drop of the guard, and SpecLock takes the lock *)
(* and the section as separate steps.  The main thread's position between  *)
(* its critical sections is pc.  The style                                 *)
(* and colour fields only select glyphs in render_all and are not part of  *)
(* the state; render_all itself writes to the terminal only.  The 'q' key   *)
(* ends the process with exit(0): a run that is quit is a run that stops,  *)
(* which every behaviour below may do at any state.                        *)
(***************************************************************************)
EXTENDS Integers, Sequences, FiniteSets, TLC

VARIABLES
    snake,        \* GameState.snake: VecDeque<Segment>, front = index 1
    delay,        \* GameState.delay, in milliseconds
    apple,        \* GameState.apple
    head,         \* GameState.head
    board,        \* GameState.board
    direction,    \* GameState.direction
    wall_wrap,    \* GameState.wall_wrap
    pc,           \* where the main thread is
    l_head,       \* main: let head
    l_board,      \* main: let board
    l_direction,  \* main: let direction
    l_wall_wrap,  \* main: let wall_wrap
    new_head,     \* main: let new_head
    l_delay,      \* main: let delay
    input,        \* the input thread: "alive", or "panicked" (mutex poisoned)
    ticks,        \* number of loop iterations started (bounds the run)
    resizes,      \* number of board keys handled (bounds the run)
    moved,        \* the direction of the displacement of the last completed iteration
    holder,       \* the thread that holds the MutexGuard: "none", "main" or "input"
    ipos          \* where the input thread is: "read", "lock" or "match"

vars == <<snake, delay, apple, head, board, direction, wall_wrap, pc, l_head,
          l_board, l_direction, l_wall_wrap, new_head, l_delay, input, ticks,
          resizes, moved, holder, ipos>>

game == <<snake, delay, apple, head, board, direction, wall_wrap>>
locals == <<l_head, l_board, l_direction, l_wall_wrap, new_head, l_delay>>

---------------------------------------------------------------------------
(* Bounds of the model *)

\* loop iterations the main thread may start
MaxTicks == 3
\* board keys ('1'..'4') the input thread may handle
MaxResizes == 1
\* presses of key '5' above the delay a run with the speed keys starts from
MaxSlowerSteps == 1

(* Program constants *)
U16 == 65536
InitWidth == 10
InitHeight == 10
InitDelay == 250
DelayStep == 20
InitAppleX == 5
InitAppleY == 5

---------------------------------------------------------------------------
(* enum Direction, enum SegmentType *)

Direction == {"North", "South", "East", "West"}

SegmentType == {"NorthSouth", "NorthEast", "NorthWest", "SouthEast", "SouthWest", "EastWest"}

\* the value of a binding of main that is not in scope, by type
NoCell == << >>
NoDirection == "none"

\* The direction a match arm of handle_input compares the facing with.
Opposite(d) ==
    CASE d = "North" -> "South"
      [] d = "South" -> "North"
      [] d = "East" -> "West"
      [] d = "West" -> "East"

\* from_next with the two arms of a North facing that turn exchanged
from_nextSwapped(a, b) ==
    CASE a = "North" ->
            (CASE b = "North" -> "NorthSouth"
               [] b = "South" -> "panic"
               [] b = "East" -> "SouthWest"
               [] b = "West" -> "SouthEast")
      [] a = "South" ->
            (CASE b = "North" -> "panic"
               [] b = "South" -> "NorthSouth"
               [] b = "East" -> "NorthEast"
               [] b = "West" -> "NorthWest")
      [] a = "East" ->
            (CASE b = "North" -> "NorthWest"
               [] b = "South" -> "SouthWest"
               [] b = "East" -> "EastWest"
               [] b = "West" -> "panic")
      [] a = "West" ->
            (CASE b = "North" -> "NorthEast"
               [] b = "South" -> "SouthEast"
               [] b = "East" -> "panic"
               [] b = "West" -> "EastWest")

\* SegmentType::from_next; "panic" stands for panic!()
from_next(a, b) ==
    CASE a = "North" ->
            (CASE b = "North" -> "NorthSouth"
               [] b = "South" -> "panic"
               [] b = "East" -> "SouthEast"
               [] b = "West" -> "SouthWest")
      [] a = "South" ->
            (CASE b = "North" -> "panic"
               [] b = "South" -> "NorthSouth"
               [] b = "East" -> "NorthEast"
               [] b = "West" -> "NorthWest")
      [] a = "East" ->
            (CASE b = "North" -> "NorthWest"
               [] b = "South" -> "SouthWest"
               [] b = "East" -> "EastWest"
               [] b = "West" -> "panic")
      [] a = "West" ->
            (CASE b = "North" -> "NorthEast"
               [] b = "South" -> "SouthEast"
               [] b = "East" -> "panic"
               [] b = "West" -> "EastWest")

\* SegmentType::from_dir
from_dir(a) ==
    IF a \in {"North", "South"} THEN "NorthSouth" ELSE "EastWest"

\* struct Segment(u16, u16, SegmentType, Direction)
Segment(x, y, s, d) == [x |-> x, y |-> y, shape |-> s, facing |-> d]

\* the (x.0, x.1) of a segment
Cell(seg) == <<seg.x, seg.y>>

---------------------------------------------------------------------------
(* GameState::new *)

\* GameState::new with the cached head on the first segment instead of the last
GameState_newHeadOnFirst ==
    [ snake |-> << Segment(0, 0, "EastWest", "East"), Segment(1, 0, "EastWest", "East") >>,
      delay |-> InitDelay,
      apple |-> <<InitAppleX, InitAppleY>>,
      head |-> <<0, 0>>,
      board |-> <<InitWidth, InitHeight>>,
      direction |-> "East",
      wall_wrap |-> FALSE ]

GameState_new ==
    [ snake |-> << Segment(0, 0, "EastWest", "East"), Segment(1, 0, "EastWest", "East") >>,
      delay |-> InitDelay,
      apple |-> <<InitAppleX, InitAppleY>>,
      head |-> <<1, 0>>,
      board |-> <<InitWidth, InitHeight>>,
      direction |-> "East",
      wall_wrap |-> FALSE ]

\* main has built the Arc<Mutex<GameState>> around g and spawned the input thread
Started(g) ==
    /\ snake = g.snake
    /\ delay = g.delay
    /\ apple = g.apple
    /\ head = g.head
    /\ board = g.board
    /\ direction = g.direction
    /\ wall_wrap = g.wall_wrap
    /\ pc = "read_head"
    /\ l_head = NoCell /\ l_board = NoCell /\ l_direction = NoDirection
    /\ l_wall_wrap = FALSE /\ new_head = NoCell /\ l_delay = 0
    /\ input = "alive"
    /\ ticks = 0
    /\ resizes = 0
    /\ moved = NoDirection
    /\ holder = "none"
    /\ ipos = "read"

Init == Started(GameState_new)

\* the process is running: main has neither returned nor panicked
Alive == pc \notin {"over", "panicked"}

---------------------------------------------------------------------------
(* handle_input: read() returns a key, the lock is taken, the match arm runs *)

\* Steer as it would be with the guard on the front segment of the deque
SteerFront(d) ==
    IF snake[1].facing # Opposite(d) THEN d ELSE direction

\* Steer as it would be without the guard
SteerUnguarded(d) == d

\* the value a directional key leaves in game.direction
Steer(d) ==
    IF snake[Len(snake)].facing # Opposite(d) THEN d ELSE direction

\* u16::checked_sub and u16::checked_add: -1 stands for None
checked_sub(a, b) == IF a >= b THEN a - b ELSE -1
checked_add(a, b) == IF a + b < U16 THEN a + b ELSE -1

InputTurn == Alive /\ input = "alive"

KeyDirection(d) ==
    /\ InputTurn
    /\ direction' = Steer(d)
    /\ UNCHANGED <<snake, delay, apple, head, board, wall_wrap, pc, locals, input, ticks, resizes, moved>>

\* game.board.i = r.unwrap(): i is the board component (1 = width, 2 = height);
\* unwrap() of None panics with the lock held, which poisons the mutex
Resize(i, r) ==
    IF r < 0
    THEN /\ input' = "panicked"
         /\ UNCHANGED board
    ELSE /\ board' = [board EXCEPT ![i] = r]
         /\ UNCHANGED input

\* keys '1' and '3'
KeyBoardDec(i) ==
    /\ InputTurn
    /\ resizes' = resizes + 1
    /\ Resize(i, checked_sub(board[i], 1))
    /\ UNCHANGED <<snake, delay, apple, head, direction, wall_wrap, pc, locals, ticks, moved>>

\* keys '2' and '4'
KeyBoardInc(i) ==
    /\ InputTurn
    /\ resizes' = resizes + 1
    /\ Resize(i, checked_add(board[i], 1))
    /\ UNCHANGED <<snake, delay, apple, head, direction, wall_wrap, pc, locals, ticks, moved>>

\* key '5': Duration::checked_add never fails within the model's range
KeySlower(hi) ==
    /\ InputTurn
    /\ delay < hi
    /\ delay' = delay + DelayStep
    /\ UNCHANGED <<snake, apple, head, board, direction, wall_wrap, pc, locals, input, ticks, resizes, moved>>

\* key '6' with a subtraction that stops at zero instead of failing
KeyFasterSaturating(lo) ==
    /\ InputTurn
    /\ delay > lo \/ delay < DelayStep
    /\ delay' = IF delay >= DelayStep THEN delay - DelayStep ELSE 0
    /\ UNCHANGED <<snake, apple, head, board, direction, wall_wrap, pc, locals, input, ticks, resizes, moved>>

\* key '6': Duration::checked_sub is None below zero
KeyFaster(lo) ==
    /\ InputTurn
    /\ delay > lo \/ delay < DelayStep
    /\ IF delay >= DelayStep
       THEN delay' = delay - DelayStep /\ UNCHANGED input
       ELSE input' = "panicked" /\ UNCHANGED delay
    /\ UNCHANGED <<snake, apple, head, board, direction, wall_wrap, pc, locals, ticks, resizes, moved>>

KeyWallWrap ==
    /\ InputTurn
    /\ wall_wrap' = ~wall_wrap
    /\ UNCHANGED <<snake, delay, apple, head, board, direction, pc, locals, input, ticks, resizes, moved>>

\* keys '7', '8', '0' and unbound keys: only the glyph selection changes
KeyDisplay ==
    /\ InputTurn
    /\ UNCHANGED <<game, pc, locals, input, ticks, resizes, moved>>

---------------------------------------------------------------------------
(* main: the game loop *)

\* game.lock().unwrap() panics in main once the input thread has panicked with the lock held
Poisoned == input = "panicked"

MainPanics ==
    /\ pc' = "panicked"
    /\ UNCHANGED <<game, locals, input, ticks, resizes, moved>>

\* let head = game.lock().unwrap().head;
ReadHead ==
    /\ pc = "read_head"
    /\ ticks < MaxTicks
    /\ IF Poisoned THEN MainPanics
       ELSE /\ l_head' = head
            /\ ticks' = ticks + 1
            /\ pc' = "read_board"
            /\ UNCHANGED <<game, l_board, l_direction, l_wall_wrap, new_head, l_delay, input, resizes, moved>>

\* the same statement in the iterations after the counted ones
ReadHeadLater ==
    /\ pc = "read_head"
    /\ ticks = MaxTicks
    /\ IF Poisoned THEN MainPanics
       ELSE /\ l_head' = head
            /\ pc' = "read_board"
            /\ UNCHANGED <<game, l_board, l_direction, l_wall_wrap, new_head, l_delay, input, ticks, resizes, moved>>

\* let board = game.lock().unwrap().board;
ReadBoard ==
    /\ pc = "read_board"
    /\ IF Poisoned THEN MainPanics
       ELSE /\ l_board' = board
            /\ pc' = "read_direction"
            /\ UNCHANGED <<game, l_head, l_direction, l_wall_wrap, new_head, l_delay, input, ticks, resizes, moved>>

\* let direction = game.lock().unwrap().direction;
ReadDirection ==
    /\ pc = "read_direction"
    /\ IF Poisoned THEN MainPanics
       ELSE /\ l_direction' = direction
            /\ pc' = "read_wall_wrap"
            /\ UNCHANGED <<game, l_head, l_board, l_wall_wrap, new_head, l_delay, input, ticks, resizes, moved>>

\* The outcomes of `let new_head = match direction { ... }`, each <<kind, x, y>>:
\* a cell, a break out of the loop, or a panic.  A u16 addition or subtraction
\* that overflows panics in a build with overflow checks and wraps in one
\* without: both outcomes are in the set.
ToCell(x, y) == <<"cell", x, y>>
Break == <<"break", 0, 0>>
Panic == <<"panic", 0, 0>>

\* Advance as it would be if a wrap to the far edge forgot the - 1
AdvancePastEdge(h, b, d, w) ==
    CASE d = "North" ->
            IF h[2] > 0 THEN { ToCell(h[1], h[2] - 1) }
            ELSE IF w THEN { ToCell(h[1], b[2]) }
            ELSE { Break }
      [] d = "South" ->
            IF h[2] + 1 < b[2] THEN { ToCell(h[1], h[2] + 1) }
            ELSE IF w THEN { ToCell(h[1], 0) }
            ELSE { Break }
      [] d = "West" ->
            IF h[1] > 0 THEN { ToCell(h[1] - 1, h[2]) }
            ELSE IF w THEN { ToCell(b[1], h[2]) }
            ELSE { Break }
      [] d = "East" ->
            IF h[1] + 1 < b[1] THEN { ToCell(h[1] + 1, h[2]) }
            ELSE IF w THEN { ToCell(0, h[2]) }
            ELSE { Break }

Advance(h, b, d, w) ==
    CASE d = "North" ->
            IF h[2] > 0 THEN { ToCell(h[1], h[2] - 1) }
            ELSE IF w THEN (IF b[2] >= 1 THEN { ToCell(h[1], b[2] - 1) }
                            ELSE { Panic, ToCell(h[1], (b[2] - 1) % U16) })
            ELSE { Break }
      [] d = "South" ->
            IF h[2] + 1 >= U16
            THEN { Panic, IF 0 < b[2] \/ w THEN ToCell(h[1], 0) ELSE Break }
            ELSE IF h[2] + 1 < b[2] THEN { ToCell(h[1], h[2] + 1) }
            ELSE IF w THEN { ToCell(h[1], 0) }
            ELSE { Break }
      [] d = "West" ->
            IF h[1] > 0 THEN { ToCell(h[1] - 1, h[2]) }
            ELSE IF w THEN (IF b[1] >= 1 THEN { ToCell(b[1] - 1, h[2]) }
                            ELSE { Panic, ToCell((b[1] - 1) % U16, h[2]) })
            ELSE { Break }
      [] d = "East" ->
            IF h[1] + 1 >= U16
            THEN { Panic, IF 0 < b[1] \/ w THEN ToCell(0, h[2]) ELSE Break }
            ELSE IF h[1] + 1 < b[1] THEN { ToCell(h[1] + 1, h[2]) }
            ELSE IF w THEN { ToCell(0, h[2]) }
            ELSE { Break }

\* let wall_wrap = game.lock().unwrap().wall_wrap; let new_head = match direction { ... };
ReadWallWrap ==
    /\ pc = "read_wall_wrap"
    /\ IF Poisoned THEN MainPanics
       ELSE /\ l_wall_wrap' = wall_wrap
            /\ \E o \in Advance(l_head, l_board, l_direction, wall_wrap) :
                  CASE o[1] = "cell" -> new_head' = <<o[2], o[3]>> /\ pc' = "step"
                    [] o[1] = "break" -> new_head' = NoCell /\ pc' = "die"
                    [] o[1] = "panic" -> new_head' = NoCell /\ pc' = "panicked"
            /\ UNCHANGED <<game, l_head, l_board, l_direction, l_delay, input, ticks, resizes, moved>>

\* the cells of the body, front first
Cells(body) == [i \in 1..Len(body) |-> Cell(body[i])]

\* Collides as it would be if the oldest segment, which a step that does not
\* grow removes, were left out of the check
CollidesButOldest(body, c) == \E i \in 2..Len(body) : Cell(body[i]) = c

\* Collides as it would be without the check
CollidesNever(body, c) == FALSE

\* game.snake.iter().any(|x| (x.0, x.1) == new_head)
Collides(body, c) == \E i \in 1..Len(body) : Cell(body[i]) = c

\* game.snake[len - 1].2 = s
\* the assignment of lines 424-426 left out
SetLastShapeSkipped(body, s) == body

SetLastShape(body, s) == [body EXCEPT ![Len(body)].shape = s]

\* pop_front as it would be if it removed the newest segment
pop_back(body) == SubSeq(body, 1, Len(body) - 1)

\* pop_front as it would be if it removed two segments
pop_two(body) == SubSeq(body, 3, Len(body))

\* pop_front
pop_front(body) == SubSeq(body, 2, Len(body))

\* the cells rng.gen_range(0..board.0), rng.gen_range(0..board.1) can return
AppleCells(b) == { <<x, y>> : x \in 0..(b[1] - 1), y \in 0..(b[2] - 1) }

\* head, board, direction, wall_wrap and new_head are not read after the
\* critical section of the iteration
Forget ==
    /\ l_head' = NoCell /\ l_board' = NoCell /\ l_direction' = NoDirection
    /\ l_wall_wrap' = FALSE /\ new_head' = NoCell

\* The critical section of an iteration: collision check, head, shape of the
\* old last segment, apple or pop_front, push_back, render_all.  A panic ends
\* the process where it happens: after game.head is set for panic!() in
\* from_next, after the shape is set for gen_range on an empty range.
Step ==
    /\ pc = "step"
    /\ IF Poisoned THEN MainPanics
       ELSE IF Collides(snake, new_head)
       THEN /\ pc' = "die"
            /\ UNCHANGED <<game, locals, input, ticks, resizes, moved>>
       ELSE LET s == from_next(snake[Len(snake)].facing, direction)
                segment == Segment(new_head[1], new_head[2], from_dir(direction), direction)
            IN  /\ head' = new_head
                /\ IF s = "panic"
                   THEN /\ pc' = "panicked"
                        /\ UNCHANGED <<snake, apple, locals, moved>>
                   ELSE IF new_head = apple /\ AppleCells(board) = {}
                   THEN /\ pc' = "panicked"
                        /\ snake' = SetLastShape(snake, s)
                        /\ UNCHANGED <<apple, locals, moved>>
                   ELSE /\ IF new_head = apple
                           THEN /\ apple' \in AppleCells(board)
                                /\ snake' = Append(SetLastShape(snake, s), segment)
                           ELSE /\ apple' = apple
                                /\ snake' = Append(pop_front(SetLastShape(snake, s)), segment)
                        /\ moved' = l_direction
                        /\ pc' = "read_delay"
                        /\ Forget
                        /\ UNCHANGED l_delay
                /\ UNCHANGED <<delay, board, direction, wall_wrap, input, ticks, resizes>>

\* let delay = game.lock().unwrap().delay;
ReadDelay ==
    /\ pc = "read_delay"
    /\ IF Poisoned THEN MainPanics
       ELSE /\ l_delay' = delay
            /\ pc' = "sleep"
            /\ UNCHANGED <<game, l_head, l_board, l_direction, l_wall_wrap, new_head, input, ticks, resizes, moved>>

\* thread::sleep(delay); the end of the iteration
Sleep ==
    /\ pc = "sleep"
    /\ pc' = "read_head"
    /\ l_delay' = 0
    /\ UNCHANGED <<game, l_head, l_board, l_direction, l_wall_wrap, new_head, input, ticks, resizes, moved>>

\* the lines after the loop with the pop_front of a tick added
DiePopping ==
    /\ pc = "die"
    /\ IF Poisoned THEN MainPanics
       ELSE LET s == from_next(snake[Len(snake)].facing, direction)
            IN  IF s = "panic"
                THEN MainPanics
                ELSE /\ snake' = pop_front(SetLastShape(snake, s))
                     /\ pc' = "over"
                     /\ UNCHANGED <<delay, apple, head, board, direction, wall_wrap, locals, input, ticks, resizes, moved>>

\* after the loop: the shape of the last segment, render_all, game_over()
Die ==
    /\ pc = "die"
    /\ IF Poisoned THEN MainPanics
       ELSE LET s == from_next(snake[Len(snake)].facing, direction)
            IN  IF s = "panic"
                THEN MainPanics
                ELSE /\ snake' = SetLastShape(snake, s)
                     /\ pc' = "over"
                     /\ UNCHANGED <<delay, apple, head, board, direction, wall_wrap, locals, input, ticks, resizes, moved>>

---------------------------------------------------------------------------
(* The two threads *)

\* game.lock().unwrap(), the section A and the drop of the guard as one step:
\* the mutex is free before and after
Atomic(A) ==
    /\ holder = "none"
    /\ A
    /\ UNCHANGED <<holder, ipos>>

\* a step A that takes no lock
Unlocked(A) ==
    /\ A
    /\ UNCHANGED <<holder, ipos>>

\* the keys of handle_input that steer, resize the board and toggle the wrap
Input ==
    \/ \E d \in Direction : Atomic(KeyDirection(d))
    \/ resizes < MaxResizes /\ Atomic(KeyBoardDec(1))
    \/ resizes < MaxResizes /\ Atomic(KeyBoardInc(1))
    \/ resizes < MaxResizes /\ Atomic(KeyBoardDec(2))
    \/ resizes < MaxResizes /\ Atomic(KeyBoardInc(2))
    \/ Atomic(KeyWallWrap)
    \/ Atomic(KeyDisplay)

Main ==
    \/ Atomic(ReadHead)
    \/ Atomic(ReadBoard)
    \/ Atomic(ReadDirection)
    \/ Atomic(ReadWallWrap)
    \/ Atomic(Step)
    \/ Atomic(ReadDelay)
    \/ Unlocked(Sleep)
    \/ Atomic(Die)

Next == Input \/ Main

Spec == Init /\ [][Next]_vars

---------------------------------------------------------------------------
(* Runs that start after the board has been resized.  The input thread is   *)
(* spawned before the loop, so keys '1' and '3' can be handled before main  *)
(* takes the lock for the first time: these initial states are states of    *)
(* Spec with the resize counter set back.                                   *)

\* the GameState after key '1' (i = 1) or key '3' (i = 2) has been handled n times
RECURSIVE Shrunk(_, _, _)
Shrunk(g, i, n) ==
    IF n = 0 THEN g
    ELSE Shrunk([g EXCEPT !.board[i] = checked_sub(@, 1)], i, n - 1)

\* a 6 x 6 board: the apple at (5, 5) is in the last row and the last column
InitNear == Started(Shrunk(Shrunk(GameState_new, 1, 4), 2, 4))

SpecNear == InitNear /\ [][Next]_vars

\* The same start with the keys that leave the board as it is.
InputSteering ==
    \/ \E d \in Direction : Atomic(KeyDirection(d))
    \/ Atomic(KeyWallWrap)
    \/ Atomic(KeyDisplay)

SpecSteer == InitNear /\ [][InputSteering \/ Main]_vars

\* The same start with the steering keys, the wrap key and key '3' only; the
\* height stops at 0, where the next key '3' panics.
InputShrinking ==
    \/ \E d \in Direction : Atomic(KeyDirection(d))
    \/ Atomic(KeyBoardDec(2))
    \/ Atomic(KeyWallWrap)

SpecShrink == InitNear /\ [][InputShrinking \/ Main]_vars

\* a 3 x 3 board
InitSmall == Started(Shrunk(Shrunk(GameState_new, 1, 7), 2, 7))

SpecSmall == InitSmall /\ [][Next]_vars

\* a 1 x 1 board
InitUnit == Started(Shrunk(Shrunk(GameState_new, 1, 9), 2, 9))

SpecUnit == InitUnit /\ [][Next]_vars

\* the GameState after key '6' has been handled n times without a panic
RECURSIVE Faster(_, _)
Faster(g, n) ==
    IF n = 0 THEN g
    ELSE Faster([g EXCEPT !.delay = @ - DelayStep], n - 1)

\* Runs with the speed keys, the steering keys and the wrap key (the board
\* keys do not touch the delay).  They start 11 presses of key '6' after the
\* start, at a delay of 30 ms; key '5' is handled while the delay is less
\* than MaxSlowerSteps steps above that.
InitFast == Started(Faster(GameState_new, 11))

InputSpeed ==
    \/ \E d \in Direction : Atomic(KeyDirection(d))
    \/ Atomic(KeySlower(Faster(GameState_new, 11).delay + MaxSlowerSteps * DelayStep))
    \/ Atomic(KeyFaster(0))
    \/ Atomic(KeyWallWrap)

SpecSpeed == InitFast /\ [][InputSpeed \/ Main]_vars

\* Runs in which the input stops: keys (the ones of InputShrinking) are
\* handled during the first MaxTicks - 1 iterations only, and the loop goes on
\* for as long as it does not break or panic.  The loop sleeps for a finite
\* time and nothing else stops the main thread, so its steps are taken
\* whenever one is possible.
InputStopping ==
    \/ \E d \in Direction : ticks < MaxTicks /\ Atomic(KeyDirection(d))
    \/ ticks < MaxTicks /\ Atomic(KeyBoardDec(2))
    \/ ticks < MaxTicks /\ Atomic(KeyWallWrap)

MainOn == Main \/ Atomic(ReadHeadLater)

SpecQuiet == InitNear /\ [][InputStopping \/ MainOn]_vars /\ WF_vars(MainOn)

---------------------------------------------------------------------------
(* Runs in which taking the lock is a step of its own.  The input thread    *)
(* blocks in read() (line 247), then in game.lock() (line 248), runs the    *)
(* match with the guard and drops it at the end of handle_input; when the   *)
(* match panics the guard is dropped while the thread unwinds.  Every       *)
(* statement of main that locks holds the guard to the end of the statement *)
(* (lines 367-370 and 454) or to the end of the block (lines 413-453 and    *)
(* 458-466); thread::sleep (line 455) is a statement of its own.            *)

\* the positions of main at a game.lock()
Locks == {"read_head", "read_board", "read_direction", "read_wall_wrap", "step", "read_delay", "die"}

\* game.lock() returns in main
MainLock ==
    /\ Alive
    /\ pc \in Locks
    /\ pc = "read_head" => ticks < MaxTicks
    /\ holder = "none"
    /\ holder' = "main"
    /\ UNCHANGED <<game, pc, locals, input, ticks, resizes, moved, ipos>>

\* the section A of main with a guard that outlives the section
MainKeepsGuard(A) ==
    /\ holder = "main"
    /\ A
    /\ UNCHANGED <<holder, ipos>>

\* the section A of main, run with the guard, and the drop of the guard
MainUnlock(A) ==
    /\ holder = "main"
    /\ A
    /\ holder' = "none"
    /\ UNCHANGED ipos

\* read() returns a key event
InputEvent ==
    /\ InputTurn
    /\ ipos = "read"
    /\ ipos' = "lock"
    /\ UNCHANGED <<game, pc, locals, input, ticks, resizes, moved, holder>>

\* game.lock() returns in handle_input
InputLock ==
    /\ InputTurn
    /\ ipos = "lock"
    /\ holder = "none"
    /\ holder' = "input"
    /\ ipos' = "match"
    /\ UNCHANGED <<game, pc, locals, input, ticks, resizes, moved>>

\* the match arm A, run with the guard, and the drop of the guard; the thread
\* goes back to read() unless the arm has panicked
InputUnlock(A) ==
    /\ ipos = "match"
    /\ holder = "input"
    /\ A
    /\ holder' = "none"
    /\ ipos' = IF input' = "panicked" THEN ipos ELSE "read"

NextLock ==
    \/ InputEvent
    \/ InputLock
    \/ \E d \in Direction : InputUnlock(KeyDirection(d))
    \/ InputUnlock(KeyFaster(0))
    \/ InputUnlock(KeyWallWrap)
    \/ MainLock
    \/ MainUnlock(ReadHead)
    \/ MainUnlock(ReadBoard)
    \/ MainUnlock(ReadDirection)
    \/ MainUnlock(ReadWallWrap)
    \/ MainUnlock(Step)
    \/ MainUnlock(ReadDelay)
    \/ Unlocked(Sleep)
    \/ MainUnlock(Die)

SpecLock == InitFast /\ [][NextLock]_vars

---------------------------------------------------------------------------
(* Properties *)

\* the segment pushed last (the head) and the segment pushed first (the tail)
Newest == snake[Len(snake)]
Oldest == snake[1]

\* C1, as stated: in every reachable state, with F the facing of the oldest
\* segment (the front of the deque), a directional key proposing the opposite of
\* F leaves the stored direction unchanged, and a key proposing any other
\* direction sets the stored direction to it.
C1_GuardOnOldest ==
    \A d \in Direction :
        Steer(d) = (IF d = Opposite(Oldest.facing) THEN direction ELSE d)

\* C1, amended: the same with F the facing of the newest segment (the back of
\* the deque, the head).
C1_GuardOnNewest ==
    \A d \in Direction :
        Steer(d) = (IF d = Opposite(Newest.facing) THEN direction ELSE d)

\* C1 witness: the oldest and the newest segment face different ways and the
\* stored direction is the opposite of the oldest's facing, which only a key
\* handled after the turn can have stored.
C1_Witness ==
    /\ Oldest.facing # Newest.facing
    /\ direction = Opposite(Oldest.facing)
    /\ direction # Opposite(Newest.facing)

\* C2: whenever the main thread can take the lock, in the critical section of an
\* iteration or for the final shape on death, the pair (facing of the newest
\* segment, stored direction) it passes to from_next is not an opposite pair.
C2_NoOppositePair ==
    /\ direction # Opposite(Newest.facing)
    /\ from_next(Newest.facing, direction) # "panic"

\* C2 witness: the game is over after a turn key: the final call of from_next
\* was made with two different directions and gave a corner.
C2_Witness ==
    /\ pc = "over"
    /\ Newest.facing # direction
    /\ Newest.shape = from_next(Newest.facing, direction)
    /\ Newest.shape \notin {"NorthSouth", "EastWest"}

\* a step of the main thread that completes the critical section of an
\* iteration: the candidate cell is accepted as the new head
Accepts == pc = "step" /\ pc' = "read_delay"

\* C3: of two consecutive accepted iterations, the second never displaces the
\* head in the direction opposite to the displacement of the first.
C3_NoReversedDisplacement ==
    [][(Accepts /\ moved # NoDirection) => l_direction # Opposite(moved)]_vars

\* the cell c lies in [0, b.0) x [0, b.1)
InBoard(c, b) == c[1] < b[1] /\ c[2] < b[2]

\* C4: a head cell accepted by an iteration that read wall_wrap = false lies
\* inside the board, be it the board the iteration read or the board at its
\* critical section.
C4_AcceptedInsideBoard ==
    [][(Accepts /\ ~l_wall_wrap) => (InBoard(head', l_board) \/ InBoard(head', board))]_vars

\* the head h lies on the edge of the board b that the direction d leaves
OnEdgeOutward(h, b, d) ==
    /\ InBoard(h, b)
    /\ \/ d = "North" /\ h[2] = 0
       \/ d = "South" /\ h[2] = b[2] - 1
       \/ d = "West" /\ h[1] = 0
       \/ d = "East" /\ h[1] = b[1] - 1

\* the cell on the opposite edge of the same axis
OppositeEdge(h, b, d) ==
    CASE d = "North" -> <<h[1], b[2] - 1>>
      [] d = "South" -> <<h[1], 0>>
      [] d = "West" -> <<b[1] - 1, h[2]>>
      [] d = "East" -> <<0, h[2]>>

\* C5: when the iteration computes its candidate for a head on a board edge
\* moving outward, then with wall_wrap false it leaves the loop for the death
\* path, and with wall_wrap true the candidate is the cell on the opposite edge
\* of the same axis, the other coordinate unchanged.
C5_WallBehaviour ==
    [][(/\ pc = "read_wall_wrap" /\ pc' # pc /\ ~Poisoned
        /\ OnEdgeOutward(l_head, l_board, l_direction))
       => IF wall_wrap
          THEN pc' = "step" /\ new_head' = OppositeEdge(l_head, l_board, l_direction)
          ELSE pc' = "die"]_vars

\* C5 witness: board 3 x 3, wrap enabled, head (2, 1) moving East: the candidate
\* is (0, 1).
C5_Witness ==
    /\ pc = "step"
    /\ l_board = <<3, 3>> /\ l_head = <<2, 1>> /\ l_direction = "East" /\ l_wall_wrap
    /\ new_head = <<0, 1>>

\* C6: a critical section whose candidate is the cell of any segment of the
\* body, the oldest included, leaves the loop for the death path and changes
\* neither the body nor the head.
C6_SelfCollision ==
    [][(/\ pc = "step" /\ pc' # pc /\ ~Poisoned
        /\ \E i \in 1..Len(snake) : snake[i].x = new_head[1] /\ snake[i].y = new_head[2])
       => pc' = "die" /\ snake' = snake /\ head' = head]_vars

\* C6 witness: the loop was left for a candidate that is the cell of the oldest
\* segment.
C6_Witness ==
    /\ pc = "die"
    /\ new_head = Cell(Oldest)

\* C7: a critical section whose candidate passes the collision check and is
\* the apple cell leaves the body one segment longer and the apple on a cell
\* inside the board, whatever the resize keys have made of the board.
C7_EatingGrows ==
    [][(/\ pc = "step" /\ pc' # pc /\ ~Poisoned
        /\ new_head = apple
        /\ \A i \in 1..Len(snake) : Cell(snake[i]) # new_head)
       => Len(snake') = Len(snake) + 1 /\ InBoard(apple', board)]_vars

\* C8: an accepted candidate that is not the apple cell leaves the length
\* unchanged; the cells of the body are the old ones without the first, followed
\* by the candidate, and the cell of the old oldest segment is no longer in it.
C8_NonEatingStep ==
    [][(Accepts /\ new_head # apple)
       => /\ Len(snake') = Len(snake)
          /\ Cells(snake') = Append(Tail(Cells(snake)), new_head)
          /\ \A i \in 1..Len(snake') : Cell(snake'[i]) # Cell(Oldest)]_vars

\* C8 witness: after the first iteration with no key, the cells (0,0), (1,0)
\* have become (1,0), (2,0).
C8_Witness ==
    /\ ticks = 1 /\ pc = "read_delay"
    /\ Cells(snake) = << <<1, 0>>, <<2, 0>> >>
    /\ Newest.shape = "EastWest" /\ Newest.facing = "East"

\* C9: the body always has at least 2 segments, and no step of either thread
\* makes it shorter.
C9_LengthNeverDecreases ==
    /\ [](Len(snake) >= 2)
    /\ [][Len(snake') >= Len(snake)]_vars

\* C9 witness: the body has grown to 3 segments and the loop goes on.
C9_Witness ==
    /\ Len(snake) = 3
    /\ pc = "sleep"

\* C10: the cells of the body are pairwise distinct.
C10_CellsDistinct ==
    \A i, j \in 1..Len(snake) : i # j => Cell(snake[i]) # Cell(snake[j])

\* C10 witness: on a board one cell wide with wrap enabled the loop was left
\* for a candidate that is the head cell itself.
C10_Witness ==
    /\ pc = "die"
    /\ new_head = head
    /\ wall_wrap

SameButLastShape(a, b) ==
    /\ Len(a) = Len(b)
    /\ \A i \in 1..Len(a) : Cell(a[i]) = Cell(b[i]) /\ a[i].facing = b[i].facing
    /\ \A i \in 1..(Len(a) - 1) : a[i].shape = b[i].shape

\* C14: once the loop is left (Dead) no step changes the length of the body, a
\* segment's cell or facing, the shape of a segment other than the last, the
\* cached head or the apple; the lines after the loop give the last segment
\* the shape from_next(its facing, direction) and end the run; after that no
\* step is taken at all, so no further tick runs.
C14_DeathPath ==
    /\ [][pc = "die" =>
            /\ pc' \in {"die", "over", "panicked"}
            /\ SameButLastShape(snake, snake')
            /\ head' = head
            /\ apple' = apple]_vars
    /\ [][pc = "die" /\ pc' = "over" =>
            Newest'.shape = from_next(Newest.facing, direction)]_vars
    /\ [][pc # "over"]_vars

\* C14 witness: the run has ended after a turn into the wall, and the lines
\* after the loop have made the last segment a corner.
C14_Witness ==
    /\ pc = "over"
    /\ Len(snake) = 2
    /\ Newest.facing = "East"
    /\ Newest.shape \in {"NorthWest", "SouthWest"}
    /\ head = Cell(Newest)

\* C15 (as stated): the facing stored in the segment that an accepted tick
\* appends is the direction that tick computed its candidate cell from.
C15_FacingIsDirectionMoved ==
    [][Accepts => Newest'.facing = l_direction]_vars

\* C16 (as stated): when main wraps North at row 0 or West at column 0 as
\* dimension - 1, the dimension it has read is at least 1.
C16_WrapNeverUnderflows ==
    [][(pc = "read_wall_wrap" /\ pc' # pc /\ ~Poisoned /\ wall_wrap) =>
            /\ (l_direction = "North" /\ l_head[2] = 0) => l_board[2] >= 1
            /\ (l_direction = "West" /\ l_head[1] = 0) => l_board[1] >= 1]_vars

\* C17: while the game runs (every state of this model but the ones after a
\* panic has the mutex free), each segment but the last has the shape
\* from_next(its facing, the facing of the next newer segment), and the last
\* segment has the shape from_dir(its facing).
C17_ShapesConsistent ==
    (Alive /\ ~Poisoned) =>
        /\ \A i \in 1..(Len(snake) - 1) :
              snake[i].shape = from_next(snake[i].facing, snake[i + 1].facing)
        /\ Newest.shape = from_dir(Newest.facing)

\* C17 witness: the game runs with a corner in the body, made by a tick after
\* a turn.
C17_Witness ==
    /\ pc = "sleep"
    /\ input = "alive"
    /\ snake[Len(snake) - 1].shape \in {"NorthEast", "NorthWest", "SouthEast", "SouthWest"}
    /\ Newest.shape = "NorthSouth"

\* C18: in every state where the mutex is free or a frame is drawn (every
\* state of this model but the ones after a panic of main), the cached head
\* is the cell of the last segment.
C18_HeadIsLastCell ==
    pc # "panicked" => head = Cell(Newest)

\* C18 witness: a tick has moved the head away from its first cell and the
\* cached head has followed.
C18_Witness ==
    /\ pc = "read_delay"
    /\ ticks = 2
    /\ head = Cell(Newest)
    /\ head # <<1, 0>>
    /\ head # <<2, 0>>

\* the sides of its cell that the glyph of a shape joins (SegmentType::display, CurvedLine)
Sides(shape) ==
    CASE shape = "NorthSouth" -> {"North", "South"}
      [] shape = "NorthEast" -> {"North", "East"}
      [] shape = "NorthWest" -> {"North", "West"}
      [] shape = "SouthEast" -> {"South", "East"}
      [] shape = "SouthWest" -> {"South", "West"}
      [] shape = "EastWest" -> {"East", "West"}
      [] OTHER -> {}

\* the pairs (previous, next) that are not opposite
NonOpposite == {pn \in Direction \X Direction : pn[2] # Opposite(pn[1])}

\* C20: on the 12 pairs (p, n) that are not opposite, from_next gives the shape
\* that joins the side opposite to p with the side n (the straight shape on
\* p's axis when p = n, a corner otherwise); every segment a tick has given a
\* shape for the turn after it has that shape.
C20_from_next ==
    /\ Cardinality(NonOpposite) = 12
    /\ \A pn \in NonOpposite :
          /\ from_next(pn[1], pn[2]) \in SegmentType
          /\ Sides(from_next(pn[1], pn[2])) = {Opposite(pn[1]), pn[2]}
    /\ (Alive /\ ~Poisoned) =>
          \A i \in 1..(Len(snake) - 1) :
              Sides(snake[i].shape) = {Opposite(snake[i].facing), snake[i + 1].facing}

\* C20 witness: a segment facing North is followed by one facing East and has
\* the shape SouthEast.
C20_Witness ==
    \E i \in 1..(Len(snake) - 1) :
        /\ snake[i].facing = "North"
        /\ snake[i + 1].facing = "East"
        /\ snake[i].shape = "SouthEast"

\* C12: the delay is strictly positive in every reachable state; a step that
\* changes it changes it by exactly 20 ms; key '6' at a delay below 20 ms
\* panics and leaves the delay as it was.
C12_DelayPositive ==
    /\ [](delay > 0)
    /\ [][delay' # delay => (delay' = delay + 20 \/ delay' = delay - 20)]_vars
    /\ [][(delay < 20 /\ input = "alive" /\ input' # input) => delay' = delay]_vars
    /\ [][(delay < 20 /\ delay' # delay) => delay' > delay]_vars

\* C12 witness: key '6' has been pressed at a delay of 10 ms and the input
\* thread has panicked there.
C12_Witness ==
    /\ delay = 10
    /\ input = "panicked"
    /\ pc # "panicked"

\* the loop has been left: the game is over (Dead)
Dead == pc \in {"die", "over"}

\* C19 (as stated): from a state where the game runs with wrap disabled and
\* no key is handled any more, the main thread, which keeps taking its steps,
\* eventually leaves the loop (Dead).
C19_EventuallyDead ==
    [](( /\ ticks = MaxTicks
         /\ pc \notin {"die", "over", "panicked"}
         /\ ~Poisoned
         /\ ~wall_wrap ) => <>Dead)

\* C13: main does not hold the mutex during thread::sleep and the input
\* thread does not hold it while it is blocked in read(); so while main
\* sleeps an input thread that is at game.lock() finds the mutex free, and
\* while the input thread is blocked in read() the mutex is free for main.
C13_NoLockWhileBlocked ==
    /\ holder \in {"none", "main", "input"}
    /\ pc = "sleep" => holder # "main"
    /\ ipos = "read" => holder # "input"
    /\ (pc = "sleep" /\ ipos = "lock") => holder = "none"
    /\ (ipos = "read" /\ pc \in Locks /\ holder # "main") => holder = "none"

\* C13 witness: main sleeps while the input thread runs a match arm with the
\* guard.
C13_Witness ==
    /\ pc = "sleep"
    /\ holder = "input"
    /\ ipos = "match"

====
